---- MODULE Spec2Model ----
(***************************************************************************)
(* Aggregation cache of the care-notes backend                             *)
(* (care_notes_app/app/crud.py, main.py, performance.py).                   *)
(*                                                                         *)
(* Strings are sequences of one-character strings, so that the key         *)
(* formatting of cache_key is modelled by what it produces.                *)
(* Averages are kept in hundredths (round(x, 2) * 100).                    *)
(***************************************************************************)
EXTENDS Integers, Sequences, FiniteSets, TLC

\* ---------------------------------------------------------------- bounds
MaxTasks == 2      \* GET /care-notes requests served in one behaviour

Tasks == 1..MaxTasks    \* the requests, numbered in the order they arrive

\* ------------------------------------------------------- python helpers
DigitChars == <<"0", "1", "2", "3", "4", "5", "6", "7", "8", "9">>

RECURSIVE NatToStr(_)
NatToStr(n) ==
    IF n < 10 THEN <<DigitChars[n + 1]>>
    ELSE NatToStr(n \div 10) \o <<DigitChars[(n % 10) + 1]>>

\* str(int)
IntToStr(n) == IF n < 0 THEN <<"-">> \o NatToStr(-n) ELSE NatToStr(n)

RECURSIVE ZeroPad(_, _)
ZeroPad(s, width) == IF Len(s) >= width THEN s ELSE ZeroPad(<<"0">> \o s, width)

\* insertion of x into an ascending sequence (a step of sorted())
RECURSIVE InsertSorted(_, _)
InsertSorted(x, s) ==
    IF s = <<>> THEN <<x>>
    ELSE IF x <= Head(s) THEN <<x>> \o s
    ELSE <<Head(s)>> \o InsertSorted(x, Tail(s))

\* a key derivation that forgets to sort
sorted_as_given(s) == s

\* sorted(list): ascending, duplicates kept
RECURSIVE sorted(_)
sorted(s) == IF s = <<>> THEN <<>> ELSE InsertSorted(Head(s), sorted(Tail(s)))

\* sep.join(map(str, ints))
RECURSIVE JoinInts(_, _)
JoinInts(sep, s) ==
    IF s = <<>> THEN <<>>
    ELSE IF Len(s) = 1 THEN IntToStr(s[1])
    ELSE IntToStr(Head(s)) \o sep \o JoinInts(sep, Tail(s))

\* dict.get(k, default) and d[k] = v
DictGet(d, k, default) == IF k \in DOMAIN d THEN d[k] ELSE default
DictPut(d, k, v) == [x \in (DOMAIN d) \cup {k} |-> IF x = k THEN v ELSE d[x]]
EmptyDict == [x \in {} |-> 0]

\* ------------------------------------------------------------ datetimes
datetime(y, mo, d, h, mi, s, us) ==
    [year |-> y, month |-> mo, day |-> d,
     hour |-> h, minute |-> mi, second |-> s, microsecond |-> us]

\* datetime.date()
DateOf(dt) == [year |-> dt.year, month |-> dt.month, day |-> dt.day]

\* str(date): ISO YYYY-MM-DD
DateToStr(d) ==
    ZeroPad(NatToStr(d.year), 4) \o <<"-">> \o ZeroPad(NatToStr(d.month), 2)
        \o <<"-">> \o ZeroPad(NatToStr(d.day), 2)

\* Optional[...] arguments
None == [none |-> TRUE, val |-> <<>>]
Some(v) == [none |-> FALSE, val |-> v]

\* truthiness of Optional[List[int]]: None and [] are falsy
Truthy(facility_ids) == (~facility_ids.none) /\ facility_ids.val # <<>>

\* str(datetime): the date, a space, and the time of day
DatetimeToStr(dt) ==
    DateToStr(DateOf(dt)) \o <<" ">> \o ZeroPad(NatToStr(dt.hour), 2) \o <<":">>
        \o ZeroPad(NatToStr(dt.minute), 2) \o <<":">> \o ZeroPad(NatToStr(dt.second), 2)
        \o (IF dt.microsecond = 0 THEN <<>>
            ELSE <<".">> \o ZeroPad(NatToStr(dt.microsecond), 6))

\* a key derivation that formats the timestamp instead of its date
cache_key_with_time(tenant_id, date, facility_ids) ==
    LET facilities == IF Truthy(facility_ids)
                      THEN JoinInts(<<",">>, sorted(facility_ids.val))
                      ELSE <<"a", "l", "l">>
    IN IntToStr(tenant_id) \o <<"-">> \o DatetimeToStr(date) \o <<"-">> \o facilities

\* ------------------------------------------------------------ cache_key
cache_key(tenant_id, date, facility_ids) ==
    LET facilities == IF Truthy(facility_ids)
                      THEN JoinInts(<<",">>, sorted(facility_ids.val))
                      ELSE <<"a", "l", "l">>
    IN IntToStr(tenant_id) \o <<"-">> \o DateToStr(DateOf(date)) \o <<"-">> \o facilities

\* ------------------------------------------------------------ CareNote
CATEGORIES == {"medication", "observation", "treatment"}
PRIORITIES == 1..5

\* a row of care_notes (created_by plays no part in any query)
CareNote(id, t, f, p, c, pr, at) ==
    [id |-> id, tenant_id |-> t, facility_id |-> f, patient_id |-> p,
     category |-> c, priority |-> pr, created_at |-> at]

Range(s) == {s[i] : i \in DOMAIN s}

\* a conjunction that never gets the facility clause
Filters_ignoring_facilities(note, tenant_id, query_date, facility_ids) ==
    /\ note.tenant_id = tenant_id
    /\ DateOf(note.created_at) = query_date

\* a conjunction without the tenant clause
Filters_ignoring_tenant(note, tenant_id, query_date, facility_ids) ==
    /\ DateOf(note.created_at) = query_date
    /\ (Truthy(facility_ids) => note.facility_id \in Range(facility_ids.val))

\* the filter conjunction built from the arguments
Filters(note, tenant_id, query_date, facility_ids) ==
    /\ note.tenant_id = tenant_id
    /\ DateOf(note.created_at) = query_date
    /\ (Truthy(facility_ids) => note.facility_id \in Range(facility_ids.val))

\* the rows of a table (a set of rows, distinct by primary key) that pass
Matching(table, tenant_id, query_date, facility_ids) ==
    {n \in table : Filters(n, tenant_id, query_date, facility_ids)}

GroupOf(note) == <<note.category, note.priority, note.facility_id>>

\* SELECT count(*), count(DISTINCT patient_id), category, priority, facility_id
\*   ... WHERE filters GROUP BY category, priority, facility_id
GroupedQuery(table, tenant_id, query_date, facility_ids) ==
    LET m == Matching(table, tenant_id, query_date, facility_ids)
        groups == {GroupOf(n) : n \in m}
        members(g) == {n \in m : GroupOf(n) = g}
    IN {[total_notes |-> Cardinality(members(g)),
         unique_patients |-> Cardinality({n.patient_id : n \in members(g)}),
         category |-> g[1], priority |-> g[2], facility_id |-> g[3]] : g \in groups}

\* SELECT count(DISTINCT patient_id) ... WHERE filters
DistinctPatientQuery(table, tenant_id, query_date, facility_ids) ==
    Cardinality({n.patient_id :
                    n \in Matching(table, tenant_id, query_date, facility_ids)})

\* containers in which by_priority starts empty like the other two maps
InitialContainers_unseeded ==
    [total_notes |-> 0,
     by_category |-> EmptyDict,
     by_priority |-> EmptyDict,
     by_facility |-> EmptyDict]

\* the aggregation containers before the loop
InitialContainers ==
    [total_notes |-> 0,
     by_category |-> EmptyDict,
     by_priority |-> [p \in 1..5 |-> 0],
     by_facility |-> EmptyDict]

\* a loop body that counts the grouped rows instead of adding their counts
AggregateRow_counting_rows(acc, row) ==
    [total_notes |-> acc.total_notes + 1,
     by_category |-> DictPut(acc.by_category, row.category,
                             DictGet(acc.by_category, row.category, 0) + 1),
     by_priority |-> DictPut(acc.by_priority, row.priority,
                             DictGet(acc.by_priority, row.priority, 0) + 1),
     by_facility |-> DictPut(acc.by_facility, row.facility_id,
                             DictGet(acc.by_facility, row.facility_id, 0) + 1)]

\* a loop body that assigns a group's count to its buckets instead of adding
AggregateRow_overwriting(acc, row) ==
    LET count == row.total_notes
    IN [total_notes |-> acc.total_notes + count,
        by_category |-> DictPut(acc.by_category, row.category, count),
        by_priority |-> DictPut(acc.by_priority, row.priority, count),
        by_facility |-> DictPut(acc.by_facility, row.facility_id, count)]

\* one iteration of "for row in rows"
AggregateRow(acc, row) ==
    LET count == row.total_notes
    IN [total_notes |-> acc.total_notes + count,
        by_category |-> DictPut(acc.by_category, row.category,
                                DictGet(acc.by_category, row.category, 0) + count),
        by_priority |-> DictPut(acc.by_priority, row.priority,
                                DictGet(acc.by_priority, row.priority, 0) + count),
        by_facility |-> DictPut(acc.by_facility, row.facility_id,
                                DictGet(acc.by_facility, row.facility_id, 0) + count)]

\* the whole loop over the fetched rows
RECURSIVE AggregateRows(_, _)
AggregateRows(acc, rows) ==
    IF rows = {} THEN acc
    ELSE LET row == CHOOSE r \in rows : TRUE
         IN AggregateRows(AggregateRow(acc, row), rows \ {row})

\* the grouped statement evaluated on a table and folded by the loop
Aggregate(table, tenant_id, date, facility_ids) ==
    AggregateRows(InitialContainers,
                  GroupedQuery(table, tenant_id, DateOf(date), facility_ids))

\* round(total / unique, 2) in hundredths; ties go to the even hundredth
\* (the quotients a tie can arise from are exact binary fractions)
RoundedAvg(total_notes, unique_patients_count) ==
    IF unique_patients_count = 0 THEN 0
    ELSE LET n == 100 * total_notes
             q == n \div unique_patients_count
             r == n % unique_patients_count
         IN IF 2 * r < unique_patients_count THEN q
            ELSE IF 2 * r > unique_patients_count THEN q + 1
            ELSE IF q % 2 = 0 THEN q ELSE q + 1

\* the result dict
ResultData(acc, unique_patients_count) ==
    [total_notes |-> acc.total_notes,
     avg_notes_per_patient |-> RoundedAvg(acc.total_notes, unique_patients_count),
     by_category |-> acc.by_category,
     by_priority |-> acc.by_priority,
     by_facility |-> acc.by_facility]

\* what a miss computes when both statements see the same table
Recompute(table, tenant_id, date, facility_ids) ==
    ResultData(Aggregate(table, tenant_id, date, facility_ids),
               DistinctPatientQuery(table, tenant_id, DateOf(date), facility_ids))

\* ------------------------------------------------- inputs of the model
Morning == datetime(2024, 1, 5, 8, 0, 0, 0)
Late    == datetime(2024, 1, 5, 23, 59, 59, 500000)
NextDay == datetime(2024, 1, 6, 0, 0, 0, 0)

\* rows that create_note may insert, each once: two patients of tenant 1 on
\* one day, in facilities 1 and 2, the second in the last second of the day
NoteUniverse ==
    {CareNote(1, 1, 1, "p1", "medication", 1, Morning),
     CareNote(2, 1, 2, "p2", "observation", 2, Late)}

\* query strings of GET /care-notes
Request(tenant_id, facility_ids, date) ==
    [tenant_id |-> tenant_id, facility_ids |-> facility_ids, date |-> date]

RequestUniverse ==
    {Request(1, None, Some(Morning)),
     Request(1, None, Some(Late)),
     Request(1, Some(<<1, 3>>), Some(Morning)),
     Request(1, Some(<<3, 1>>), Some(Morning)),
     Request(2, None, None),
     Request(0, None, Some(Morning))}

Clock == {NextDay}     \* values datetime.utcnow() may return

\* ---------------------------------------------------------------- state
VARIABLES
    care_notes,    \* the rows of the care_notes table
    cache_store,   \* crud.cache_store: key -> result dict
    pc,            \* where each request handler is
    frame,         \* arguments and locals of get_daily_care_stats_optimized
    ret,           \* value returned to the caller of the handler
    queries,       \* queries the Record Source received from each call
    last_store,    \* history: the request that stored last, and the table then
    key_probe,     \* two argument lists and the keys cache_key derives for them
    agg_probe,     \* a table, a filter and the result a miss computes from them
    narrow_probe,  \* a table, a facility list, the unfiltered and the filtered result
    legacy_probe   \* a table, a tenant and a date, the legacy and the optimized result

service == <<care_notes, cache_store, pc, frame, ret, queries, last_store>>
probes  == <<key_probe, agg_probe, narrow_probe, legacy_probe>>
vars    == <<care_notes, cache_store, pc, frame, ret, queries, last_store,
             key_probe, agg_probe, narrow_probe, legacy_probe>>

NoQueries == [grouped |-> 0, distinct |-> 0]

\* a handler that is not running (its arguments and locals do not exist)
NoFrame ==
    [tenant_id |-> 0, facility_ids |-> None, date |-> Morning, key |-> <<>>,
     total_notes |-> 0, by_category |-> EmptyDict,
     by_priority |-> EmptyDict, by_facility |-> EmptyDict,
     unique_patients_count |-> 0]

\* no request has stored yet
NoStore == [task |-> 0, table |-> {}]

\* a handler that has returned or raised: its locals are gone; the arguments
\* stay on record as the request it served
Returned(f) ==
    [NoFrame EXCEPT !.tenant_id = f.tenant_id, !.facility_ids = f.facility_ids,
                    !.date = f.date, !.key = f.key]

\* the service at process start: empty table, empty cache, nothing running
ServiceInit ==
    /\ care_notes = {}
    /\ cache_store = EmptyDict
    /\ pc = [p \in Tasks |-> "idle"]
    /\ frame = [p \in Tasks |-> NoFrame]
    /\ ret = [p \in Tasks |-> None]
    /\ queries = [p \in Tasks |-> NoQueries]
    /\ last_store = NoStore

\* the probes when a specification does not use them
NoKeyProbe == [phase |-> "unused", a |-> Request(0, None, Morning),
               b |-> Request(0, None, Morning), key_a |-> <<>>, key_b |-> <<>>]
NoAggProbe == [phase |-> "unused", table |-> {}, filter |-> Request(0, None, Morning),
               result |-> None]
NoNarrowProbe == [phase |-> "unused", table |-> {}, filter |-> Request(0, None, Morning),
                  subset |-> <<>>, unfiltered |-> None, filtered |-> None]
NoLegacyProbe == [phase |-> "unused", table |-> {}, tenant_id |-> 0, date |-> Morning,
                  legacy |-> None, optimized |-> None]

Init ==
    /\ ServiceInit
    /\ key_probe = NoKeyProbe
    /\ agg_probe = NoAggProbe
    /\ narrow_probe = NoNarrowProbe
    /\ legacy_probe = NoLegacyProbe

\* -------------------------------------------------------------- actions

\* an insert that also empties the cache
create_note_invalidating(note) ==
    /\ note \notin care_notes
    /\ care_notes' = care_notes \cup {note}
    /\ cache_store' = EmptyDict
    /\ UNCHANGED <<pc, frame, ret, queries, last_store, probes>>

\* POST /care-notes: one more committed row
create_note(note) ==
    /\ note \notin care_notes
    /\ care_notes' = care_notes \cup {note}
    /\ UNCHANGED <<cache_store, pc, frame, ret, queries, last_store, probes>>

\* a handler that skips the hit check
stats_without_hit_check(p, tenant_id, facility_ids, date_arg, utcnow) ==
    /\ pc[p] = "idle"
    /\ \A q \in Tasks : q < p => pc[q] # "idle"
    /\ LET date == IF date_arg.none THEN utcnow ELSE date_arg.val
           key  == cache_key(tenant_id, date, facility_ids)
       IN frame' = [frame EXCEPT ![p] =
                        [NoFrame EXCEPT !.tenant_id = tenant_id,
                                        !.facility_ids = facility_ids,
                                        !.date = date, !.key = key]]
    /\ pc' = [pc EXCEPT ![p] = "await_execute"]
    /\ ret' = [ret EXCEPT ![p] = None]
    /\ queries' = [queries EXCEPT ![p] = [grouped |-> 1, distinct |-> 0]]
    /\ UNCHANGED <<care_notes, cache_store, last_store, probes>>

\* a handler that takes a lock on the cache before the hit check and gives
\* it back after the store: it waits while any other call is in between
stats_under_lock(p, tenant_id, facility_ids, date_arg, utcnow) ==
    /\ \A o \in Tasks \ {p} : pc[o] \notin {"await_execute", "await_scalar", "scalar_ready"}
    /\ stats_without_hit_check(p, tenant_id, facility_ids, date_arg, utcnow)

\* GET /care-notes up to the first await: default date, key, hit check,
\* and on a miss the grouped statement handed to the session
stats(p, tenant_id, facility_ids, date_arg, utcnow) ==
    /\ pc[p] = "idle"
    /\ \A q \in Tasks : q < p => pc[q] # "idle"
    /\ LET date == IF date_arg.none THEN utcnow ELSE date_arg.val
           key  == cache_key(tenant_id, date, facility_ids)
           f    == [NoFrame EXCEPT !.tenant_id = tenant_id,
                                   !.facility_ids = facility_ids,
                                   !.date = date, !.key = key]
       IN /\ IF key \in DOMAIN cache_store
             THEN /\ pc' = [pc EXCEPT ![p] = "done"]
                  /\ frame' = [frame EXCEPT ![p] = f]
                  /\ ret' = [ret EXCEPT ![p] = Some(cache_store[key])]
                  /\ queries' = [queries EXCEPT ![p] = NoQueries]
             ELSE /\ pc' = [pc EXCEPT ![p] = "await_execute"]
                  /\ frame' = [frame EXCEPT ![p] = f]
                  /\ ret' = [ret EXCEPT ![p] = None]
                  /\ queries' = [queries EXCEPT ![p] = [grouped |-> 1, distinct |-> 0]]
    /\ UNCHANGED <<care_notes, cache_store, last_store, probes>>

\* a resumption that caches the folded rows before the count is known
execute_caching_early(p) ==
    /\ pc[p] = "await_execute"
    /\ LET acc == Aggregate(care_notes, frame[p].tenant_id,
                            frame[p].date, frame[p].facility_ids)
       IN /\ frame' = [frame EXCEPT ![p].total_notes = acc.total_notes,
                                    ![p].by_category = acc.by_category,
                                    ![p].by_priority = acc.by_priority,
                                    ![p].by_facility = acc.by_facility]
          /\ cache_store' = DictPut(cache_store, frame[p].key, acc)
    /\ pc' = [pc EXCEPT ![p] = "await_scalar"]
    /\ queries' = [queries EXCEPT ![p].distinct = 1]
    /\ UNCHANGED <<care_notes, ret, last_store, probes>>

\* the awaited db.execute completes: the Record Source evaluates the grouped
\* statement on the table as it is now, the coroutine folds the rows and
\* awaits the distinct-patient count.  (Between the evaluation and the
\* resumption the coroutine touches nothing shared, so they are one step.)
execute(p) ==
    /\ pc[p] = "await_execute"
    /\ LET acc == Aggregate(care_notes, frame[p].tenant_id,
                            frame[p].date, frame[p].facility_ids)
       IN frame' = [frame EXCEPT ![p].total_notes = acc.total_notes,
                                 ![p].by_category = acc.by_category,
                                 ![p].by_priority = acc.by_priority,
                                 ![p].by_facility = acc.by_facility]
    /\ pc' = [pc EXCEPT ![p] = "await_scalar"]
    /\ queries' = [queries EXCEPT ![p].distinct = 1]
    /\ UNCHANGED <<care_notes, cache_store, ret, last_store, probes>>

\* the Record Source evaluates the distinct count on the table as it is now;
\* the coroutine has not been resumed yet
scalar(p) ==
    /\ pc[p] = "await_scalar"
    /\ pc' = [pc EXCEPT ![p] = "scalar_ready"]
    /\ frame' = [frame EXCEPT ![p].unique_patients_count =
            DistinctPatientQuery(care_notes, frame[p].tenant_id,
                                 DateOf(frame[p].date), frame[p].facility_ids)]
    /\ UNCHANGED <<care_notes, cache_store, ret, queries, last_store, probes>>

\* a return that forgets the cache write
store_without_caching(p) ==
    /\ pc[p] = "scalar_ready"
    /\ ret' = [ret EXCEPT ![p] =
                  Some(ResultData(frame[p], frame[p].unique_patients_count))]
    /\ last_store' = [task |-> p, table |-> care_notes]
    /\ pc' = [pc EXCEPT ![p] = "done"]
    /\ frame' = [frame EXCEPT ![p] = Returned(frame[p])]
    /\ UNCHANGED <<care_notes, cache_store, queries, probes>>

\* a store that keeps the value a key already has (first write wins)
store_first_write_wins(p) ==
    /\ pc[p] = "scalar_ready"
    /\ LET result_data == ResultData(frame[p], frame[p].unique_patients_count)
       IN /\ cache_store' = IF frame[p].key \in DOMAIN cache_store THEN cache_store
                             ELSE DictPut(cache_store, frame[p].key, result_data)
          /\ ret' = [ret EXCEPT ![p] = Some(result_data)]
          /\ last_store' = [task |-> p, table |-> care_notes]
    /\ pc' = [pc EXCEPT ![p] = "done"]
    /\ frame' = [frame EXCEPT ![p] = Returned(frame[p])]
    /\ UNCHANGED <<care_notes, queries, probes>>

\* a return that divides without the guard: with a count of 0 the division
\* raises and the exception leaves the coroutine
store_faulting_on_zero(p) ==
    /\ pc[p] = "scalar_ready"
    /\ IF frame[p].unique_patients_count = 0
       THEN /\ pc' = [pc EXCEPT ![p] = "failed"]
            /\ UNCHANGED <<cache_store, ret, last_store>>
       ELSE LET result_data == ResultData(frame[p], frame[p].unique_patients_count)
            IN /\ cache_store' = DictPut(cache_store, frame[p].key, result_data)
               /\ ret' = [ret EXCEPT ![p] = Some(result_data)]
               /\ last_store' = [task |-> p, table |-> care_notes]
               /\ pc' = [pc EXCEPT ![p] = "done"]
    /\ frame' = [frame EXCEPT ![p] = Returned(frame[p])]
    /\ UNCHANGED <<care_notes, queries, probes>>

\* the coroutine resumes with the count: average, result dict, store, return
store(p) ==
    /\ pc[p] = "scalar_ready"
    /\ LET result_data == ResultData(frame[p], frame[p].unique_patients_count)
       IN /\ cache_store' = DictPut(cache_store, frame[p].key, result_data)
          /\ ret' = [ret EXCEPT ![p] = Some(result_data)]
          /\ last_store' = [task |-> p, table |-> care_notes]
    /\ pc' = [pc EXCEPT ![p] = "done"]
    /\ frame' = [frame EXCEPT ![p] = Returned(frame[p])]
    /\ UNCHANGED <<care_notes, queries, probes>>

\* a handler that catches the failure and caches an empty result for the key
db_error_caching_fault(p) ==
    /\ pc[p] \in {"await_execute", "await_scalar"}
    /\ pc' = [pc EXCEPT ![p] = "failed"]
    /\ cache_store' = DictPut(cache_store, frame[p].key, EmptyDict)
    /\ frame' = [frame EXCEPT ![p] = Returned(frame[p])]
    /\ UNCHANGED <<care_notes, ret, queries, last_store, probes>>

\* the awaited Record Source call raises: the exception leaves the coroutine
db_error(p) ==
    /\ pc[p] \in {"await_execute", "await_scalar"}
    /\ pc' = [pc EXCEPT ![p] = "failed"]
    /\ frame' = [frame EXCEPT ![p] = Returned(frame[p])]
    /\ UNCHANGED <<care_notes, cache_store, ret, queries, last_store, probes>>

\* a clean-up that stores what the call had folded when it was abandoned
cancel_storing_partial(p) ==
    /\ pc[p] \in {"await_execute", "await_scalar", "scalar_ready"}
    /\ pc' = [pc EXCEPT ![p] = "cancelled"]
    /\ cache_store' = DictPut(cache_store, frame[p].key,
                              [total_notes |-> frame[p].total_notes,
                               by_category |-> frame[p].by_category,
                               by_priority |-> frame[p].by_priority,
                               by_facility |-> frame[p].by_facility])
    /\ frame' = [frame EXCEPT ![p] = Returned(frame[p])]
    /\ UNCHANGED <<care_notes, ret, queries, last_store, probes>>

\* the caller abandons the call while it is suspended in db.execute or
\* db.scalar: CancelledError is raised at the await and leaves the coroutine,
\* which has no handler and no clean-up
cancel(p) ==
    /\ pc[p] \in {"await_execute", "await_scalar", "scalar_ready"}
    /\ pc' = [pc EXCEPT ![p] = "cancelled"]
    /\ frame' = [frame EXCEPT ![p] = Returned(frame[p])]
    /\ UNCHANGED <<care_notes, cache_store, ret, queries, last_store, probes>>

Next ==
    \/ \E note \in NoteUniverse : create_note(note)
    \/ \E p \in Tasks, r \in RequestUniverse, utcnow \in Clock :
            stats(p, r.tenant_id, r.facility_ids, r.date, utcnow)
    \/ \E p \in Tasks : execute(p)
    \/ \E p \in Tasks : scalar(p)
    \/ \E p \in Tasks : store(p)
    \/ \E p \in Tasks : db_error(p)
    \/ \E p \in Tasks : cancel(p)

Spec == Init /\ [][Next]_vars

\* ------------------------------------------------ properties of the service
Starts(q) == pc[q] = "idle" /\ pc'[q] # "idle"        \* q's call begins in this step
Stored(p) == pc[p] = "done" /\ queries[p] = [grouped |-> 1, distinct |-> 1]
Hit(q)    == pc[q] = "done" /\ queries[q] = NoQueries

SameArguments(f, g) ==
    /\ f.tenant_id = g.tenant_id
    /\ f.facility_ids = g.facility_ids
    /\ f.date = g.date

\* C1: a call with the arguments of the call that stored last, made while the
\* table is as it was at that store, returns the value that call stored and
\* issues no query; the two calls together issued one grouped and one
\* distinct-count query.
CacheHitFidelity ==
    [][\A q \in Tasks :
        (/\ Starts(q)
         /\ last_store.task # 0
         /\ last_store.table = care_notes
         /\ SameArguments(frame'[q], frame[last_store.task]))
        => (/\ pc'[q] = "done"
            /\ ret'[q] = ret[last_store.task]
            /\ queries'[q] = NoQueries
            /\ queries[last_store.task] = [grouped |-> 1, distinct |-> 1])]_vars

\* the second of two identical calls has returned the first one's non-empty
\* result without a query
CacheHitFidelityWitness ==
    \E p \in Tasks, q \in Tasks :
        /\ p < q /\ last_store.task = p /\ last_store.table = care_notes
        /\ Stored(p) /\ Hit(q)
        /\ SameArguments(frame[p], frame[q])
        /\ ret[q] = ret[p]
        /\ ret[p].val.total_notes > 0

\* C2: every result get returns equals an un-cached recomputation over the
\* table's current contents.  (Stated for the results served without a query
\* in flight; a computation that overlaps an insert is the subject of C19.)
ReturnsMatchRecomputation ==
    [][\A q \in Tasks :
        (Starts(q) /\ pc'[q] = "done")
        => ret'[q].val = Recompute(care_notes', frame'[q].tenant_id, frame'[q].date,
                                   frame'[q].facility_ids)]_vars

\* C3: a Record Source failure ends the call without a result and leaves the
\* cache as it was; a later call with the failed call's arguments, the key
\* still absent, puts the grouped query to the Record Source again.
FailureIsolation ==
    [][/\ \A p \in Tasks :
            (pc[p] # "failed" /\ pc'[p] = "failed")
            => (cache_store' = cache_store /\ ret'[p] = None)
       /\ \A p \in Tasks, q \in Tasks :
            (/\ pc[p] = "failed" /\ Starts(q)
             /\ SameArguments(frame'[q], frame[p])
             /\ frame[p].key \notin DOMAIN cache_store)
            => (/\ pc'[q] = "await_execute"
                /\ queries'[q] = [grouped |-> 1, distinct |-> 0])]_vars

\* a call failed, its key is not cached, and a second call with the same
\* arguments is waiting for its grouped query
FailureIsolationWitness ==
    \E p \in Tasks, q \in Tasks :
        /\ pc[p] = "failed" /\ ret[p] = None
        /\ pc[q] = "await_execute"
        /\ SameArguments(frame[p], frame[q])
        /\ frame[p].key \notin DOMAIN cache_store
        /\ care_notes # {}

RollupFields ==
    {"total_notes", "avg_notes_per_patient", "by_category", "by_priority", "by_facility"}

\* the date a request is served for
ResolvedDate(r, utcnow) == IF r.date.none THEN utcnow ELSE r.date.val

\* v is what a finished aggregation for request r produces: the grouped
\* statement saw some earlier contents of the table, the distinct count the
\* same or later ones
FinishedAggregation(v, r, utcnow) ==
    \E s2 \in SUBSET care_notes : \E s1 \in SUBSET s2 :
        v = ResultData(Aggregate(s1, r.tenant_id, ResolvedDate(r, utcnow), r.facility_ids),
                       DistinctPatientQuery(s2, r.tenant_id,
                                            DateOf(ResolvedDate(r, utcnow)),
                                            r.facility_ids))

\* C4: whatever the interleaving, every value in the cache is a complete
\* result (all five fields, priorities 1..5) of a finished aggregation for a
\* request with that key.
CacheHoldsCompleteResults ==
    \A k \in DOMAIN cache_store :
        /\ DOMAIN cache_store[k] = RollupFields
        /\ 1..5 \subseteq DOMAIN cache_store[k].by_priority
        /\ \E r \in RequestUniverse, utcnow \in Clock :
              /\ cache_key(r.tenant_id, ResolvedDate(r, utcnow), r.facility_ids) = k
              /\ FinishedAggregation(cache_store[k], r, utcnow)

\* two calls missed on one key; one has stored a non-empty result, the other
\* is about to store
CacheHoldsCompleteResultsWitness ==
    \E p \in Tasks, q \in Tasks :
        /\ Stored(p) /\ pc[q] = "scalar_ready"
        /\ frame[p].key = frame[q].key
        /\ frame[p].key \in DOMAIN cache_store
        /\ cache_store[frame[p].key].total_notes > 0

\* C5: once a call has completed its store for a key, every call for that key
\* whose hit check comes later finds the key, issues no query and returns the
\* value the cache holds at the check.
NoStaleReads ==
    [][\A p \in Tasks, q \in Tasks :
        (Stored(p) /\ Starts(q) /\ frame'[q].key = frame[p].key)
        => (/\ frame[p].key \in DOMAIN cache_store
            /\ pc'[q] = "done"
            /\ queries'[q] = NoQueries
            /\ ret'[q] = Some(cache_store[frame[p].key]))]_vars

\* a call for a key stored earlier by another call, with other arguments,
\* has returned the cached value without a query
NoStaleReadsWitness ==
    \E p \in Tasks, q \in Tasks :
        /\ p < q /\ Stored(p) /\ Hit(q)
        /\ frame[p].key = frame[q].key
        /\ ~SameArguments(frame[p], frame[q])
        /\ ret[q] = Some(cache_store[frame[q].key])

\* C6: once a key is in the cache it stays, and its value is never replaced
\* by a different one.
CacheEntriesStable ==
    [][\A k \in DOMAIN cache_store :
        k \in DOMAIN cache_store' /\ cache_store'[k] = cache_store[k]]_vars

\* C6, amended: once a key is in the cache it stays, and its value changes
\* only when another call that missed on the same key stores its own
\* result over it.
CacheEntriesPersist ==
    [][\A k \in DOMAIN cache_store :
        /\ k \in DOMAIN cache_store'
        /\ cache_store'[k] # cache_store[k]
           => \E p \in Tasks :
                /\ pc[p] = "scalar_ready" /\ pc'[p] = "done"
                /\ frame[p].key = k
                /\ queries[p] = [grouped |-> 1, distinct |-> 1]
                /\ cache_store'[k] = ret'[p].val]_vars

\* a call stored its result and the cache now holds another call's result
\* for the same key
CacheEntriesPersistWitness ==
    \E p \in Tasks, q \in Tasks :
        /\ Stored(p) /\ Stored(q)
        /\ frame[p].key = frame[q].key
        /\ cache_store[frame[p].key] # ret[p].val
        /\ cache_store[frame[p].key] = ret[q].val

\* C9: a call whose date falls on the day of the call that stored last, at
\* another time of day, with the same tenant and facility_ids, derives the
\* same key and is served the entry that call stored.
TimeOfDayDiscarded ==
    [][\A q \in Tasks :
        (/\ Starts(q)
         /\ last_store.task # 0
         /\ frame'[q].tenant_id = frame[last_store.task].tenant_id
         /\ frame'[q].facility_ids = frame[last_store.task].facility_ids
         /\ DateOf(frame'[q].date) = DateOf(frame[last_store.task].date)
         /\ frame'[q].date # frame[last_store.task].date)
        => (/\ frame'[q].key = frame[last_store.task].key
            /\ pc'[q] = "done"
            /\ queries'[q] = NoQueries
            /\ ret'[q] = ret[last_store.task])]_vars

\* the morning call stored, the call for 23:59:59.5 of that day was served
\* its result
TimeOfDayDiscardedWitness ==
    \E p \in Tasks, q \in Tasks :
        /\ p < q /\ last_store.task = p /\ Stored(p) /\ Hit(q)
        /\ frame[p].date = Morning /\ frame[q].date = Late
        /\ frame[p].tenant_id = frame[q].tenant_id
        /\ frame[p].facility_ids = frame[q].facility_ids
        /\ frame[p].key = frame[q].key
        /\ ret[q] = ret[p]

\* C12: a call that resumes with a distinct-patient count of 0 returns a
\* result with total_notes 0 and avg_notes_per_patient 0, does not fail, and
\* that result is the cache's value for its key afterwards.
ZeroDivisionGuard ==
    [][\A p \in Tasks :
        (/\ pc[p] = "scalar_ready" /\ pc'[p] \notin {"scalar_ready", "cancelled"}
         /\ frame[p].unique_patients_count = 0)
        => (/\ pc'[p] = "done"
            /\ ~ret'[p].none
            /\ ret'[p].val.total_notes = 0
            /\ ret'[p].val.avg_notes_per_patient = 0
            /\ frame[p].key \in DOMAIN cache_store'
            /\ cache_store'[frame[p].key] = ret'[p].val)]_vars

\* tenant 2 has no notes in a table that is not empty; its call has stored
\* and returned the zero result
ZeroDivisionGuardWitness ==
    \E p \in Tasks :
        /\ Stored(p) /\ frame[p].tenant_id = 2 /\ care_notes = NoteUniverse
        /\ ret[p].val.total_notes = 0
        /\ ret[p].val.avg_notes_per_patient = 0
        /\ ret[p].val.by_priority = <<0, 0, 0, 0, 0>>
        /\ cache_store[frame[p].key] = ret[p].val

\* C14: a call with a tenant_id of 0 or less ends in an error without having
\* put a query to the Record Source, and its key is never in the cache.
InvalidFilterRejected ==
    \A p \in Tasks :
        (pc[p] # "idle" /\ frame[p].tenant_id <= 0)
        => (/\ pc[p] = "failed"
            /\ queries[p] = NoQueries
            /\ frame[p].key \notin DOMAIN cache_store)

\* C17: a call abandoned at either await writes nothing and returns nothing:
\* the cache is the same after the step, and from then on the abandoned
\* call's key is absent or holds the complete result that another call, which
\* has returned, stored for it.
CancellationSafety ==
    [][/\ \A p \in Tasks :
            (pc[p] # "cancelled" /\ pc'[p] = "cancelled")
            => (cache_store' = cache_store /\ ret'[p] = None)
       /\ \A p \in Tasks :
            (pc'[p] = "cancelled" /\ frame'[p].key \in DOMAIN cache_store')
            => \E q \in Tasks \ {p} :
                  /\ pc'[q] = "done" /\ queries'[q] = [grouped |-> 1, distinct |-> 1]
                  /\ frame'[q].key = frame'[p].key
                  /\ cache_store'[frame'[p].key] = ret'[q].val
                  /\ DOMAIN cache_store'[frame'[p].key] = RollupFields]_vars

\* a call was abandoned after its grouped query had run; the cache holds for
\* its key the non-empty result of another call that stored
CancellationSafetyWitness ==
    \E p \in Tasks, q \in Tasks :
        /\ pc[p] = "cancelled" /\ queries[p] = [grouped |-> 1, distinct |-> 1]
        /\ ret[p] = None
        /\ Stored(q) /\ frame[q].key = frame[p].key
        /\ cache_store[frame[p].key] = ret[q].val
        /\ ret[q].val.total_notes > 0

Suspended(p) == pc[p] \in {"await_execute", "await_scalar", "scalar_ready"}

\* C15: while a call is suspended in a Record Source query for its key, a
\* call for another key can take each of its steps: the next request to
\* arrive can do its hit check, and a call in progress can have its grouped
\* query answered, its count answered, and can store and return.
NoLockAcrossSuspension ==
    \A q \in Tasks :
        LET held == {frame[p].key : p \in {o \in Tasks \ {q} : Suspended(o)}}
        IN /\ (pc[q] = "idle" /\ \A o \in Tasks : o < q => pc[o] # "idle")
              => \A r \in RequestUniverse, utcnow \in Clock :
                    (\E k \in held :
                        k # cache_key(r.tenant_id, ResolvedDate(r, utcnow), r.facility_ids))
                    => ENABLED stats(q, r.tenant_id, r.facility_ids, r.date, utcnow)
           /\ (\E k \in held : k # frame[q].key)
              => /\ pc[q] = "await_execute" => ENABLED execute(q)
                 /\ pc[q] = "await_scalar" => ENABLED scalar(q)
                 /\ pc[q] = "scalar_ready" => ENABLED store(q)

\* a call is still waiting for its grouped query while a call that arrived
\* later, for another key, has missed, queried, stored and returned
NoLockAcrossSuspensionWitness ==
    \E p \in Tasks, q \in Tasks :
        /\ p < q /\ pc[p] = "await_execute"
        /\ Stored(q) /\ frame[q].key # frame[p].key
        /\ frame[q].key \in DOMAIN cache_store
        /\ frame[p].key \notin DOMAIN cache_store
        /\ ret[q].val.total_notes > 0

\* C16: the key of every call that missed and completed is in the cache with
\* a complete, non-empty value that is the return value of such a call for
\* that key; for the key of the call that stored last it is that call's
\* return value, whichever of the calls started or queried first.
LastWriteWins ==
    /\ \A q \in Tasks : Stored(q) => frame[q].key \in DOMAIN cache_store
    /\ \A k \in DOMAIN cache_store :
          /\ cache_store[k] # EmptyDict
          /\ DOMAIN cache_store[k] = RollupFields
          /\ \E q \in Tasks :
                Stored(q) /\ frame[q].key = k /\ cache_store[k] = ret[q].val
          /\ \A q \in Tasks :
                (Stored(q) /\ last_store.task = q /\ frame[q].key = k)
                => cache_store[k] = ret[q].val

\* two calls missed on one key; the one that started first stored last, and
\* the cache holds its result, which differs from the other's
LastWriteWinsWitness ==
    \E p \in Tasks, q \in Tasks :
        /\ q < p /\ Stored(p) /\ Stored(q)
        /\ frame[p].key = frame[q].key
        /\ last_store.task = q
        /\ ret[q].val # ret[p].val
        /\ cache_store[frame[q].key] = ret[q].val

\* the records of a table that belong to tenant t, day d and, when ids are
\* given, one of the facilities ids
RecordsOf(table, t, d, ids) ==
    {n \in table :
        /\ n.tenant_id = t
        /\ n.created_at.year = d.year /\ n.created_at.month = d.month
        /\ n.created_at.day = d.day
        /\ (ids = {} \/ n.facility_id \in ids)}

\* the counts of v are the counts of the records m, and of no other record
CountsExactly(v, m) ==
    /\ v.total_notes = Cardinality(m)
    /\ DOMAIN v.by_category = {n.category : n \in m}
    /\ \A c \in DOMAIN v.by_category :
          v.by_category[c] = Cardinality({n \in m : n.category = c})
    /\ \A pr \in 1..5 : v.by_priority[pr] = Cardinality({n \in m : n.priority = pr})
    /\ DOMAIN v.by_facility = {n.facility_id : n \in m}
    /\ \A f \in DOMAIN v.by_facility :
          v.by_facility[f] = Cardinality({n \in m : n.facility_id = f})

\* v counts records of tenant t, day d and facilities ids as some earlier
\* contents of the table had them
CountsOnly(v, t, d, facility_ids) ==
    LET ids == IF facility_ids.none THEN {}
               ELSE {facility_ids.val[i] : i \in DOMAIN facility_ids.val}
    IN \E s \in SUBSET care_notes : CountsExactly(v, RecordsOf(s, t, d, ids))

SnapshotConsistency ==
    \A k \in DOMAIN cache_store :
        \E r \in RequestUniverse, utcnow \in Clock :
            /\ cache_key(r.tenant_id, ResolvedDate(r, utcnow), r.facility_ids) = k
            /\ \E s \in SUBSET care_notes :
                  cache_store[k] = Recompute(s, r.tenant_id, ResolvedDate(r, utcnow),
                                             r.facility_ids)

\* ---------------------------------------------- cache_key on its own
\* argument lists the key derivation is applied to
KeyTenants    == {1, 12}
KeyDates      == {Morning, Late, NextDay}
KeyFacilities == {None, Some(<<>>), Some(<<3>>), Some(<<23>>), Some(<<3, 3>>),
                  Some(<<1, 2, 3>>), Some(<<3, 1, 2>>), Some(<<2, 3, 1>>)}
KeyInputs     == {Request(t, f, d) : t \in KeyTenants, f \in KeyFacilities, d \in KeyDates}

InitKey ==
    /\ ServiceInit
    /\ agg_probe = NoAggProbe
    /\ narrow_probe = NoNarrowProbe
    /\ legacy_probe = NoLegacyProbe
    /\ \E a \in KeyInputs, b \in KeyInputs :
          key_probe = [phase |-> "input", a |-> a, b |-> b, key_a |-> <<>>, key_b |-> <<>>]

\* cache_key applied to both argument lists
derive_keys ==
    /\ key_probe.phase = "input"
    /\ key_probe' = [key_probe EXCEPT
            !.phase = "derived",
            !.key_a = cache_key(key_probe.a.tenant_id, key_probe.a.date,
                                key_probe.a.facility_ids),
            !.key_b = cache_key(key_probe.b.tenant_id, key_probe.b.date,
                                key_probe.b.facility_ids)]
    /\ UNCHANGED <<service, agg_probe, narrow_probe, legacy_probe>>

NextKey == derive_keys

SpecKey == InitKey /\ [][NextKey]_vars

\* the facility set a filter stands for: absent and empty both mean "all"
FacilitySet(facility_ids) ==
    IF Truthy(facility_ids) THEN [all |-> FALSE, ids |-> Range(facility_ids.val)]
    ELSE [all |-> TRUE, ids |-> {}]

Occurrences(s, x) == Cardinality({i \in DOMAIN s : s[i] = x})

\* two supplied lists are orderings of the same ids
IsPermutation(f, g) ==
    /\ Truthy(f) /\ Truthy(g)
    /\ Len(f.val) = Len(g.val)
    /\ \A x \in Range(f.val) \cup Range(g.val) : Occurrences(f.val, x) = Occurrences(g.val, x)

\* C7: cache_key gives two argument lists the same key if and only if they
\* have the same tenant, the same calendar day and the same set of facility
\* ids (absent and empty both meaning all, repeats not changing the set).
KeyBijection ==
    key_probe.phase = "derived" =>
        ((key_probe.key_a = key_probe.key_b)
            <=> (/\ key_probe.a.tenant_id = key_probe.b.tenant_id
                 /\ DateOf(key_probe.a.date) = DateOf(key_probe.b.date)
                 /\ FacilitySet(key_probe.a.facility_ids)
                        = FacilitySet(key_probe.b.facility_ids)))

\* C8: for one tenant and one day, every ordering of the same facility ids
\* derives the same key.
KeyCanonicalization ==
    (/\ key_probe.phase = "derived"
     /\ key_probe.a.tenant_id = key_probe.b.tenant_id
     /\ DateOf(key_probe.a.date) = DateOf(key_probe.b.date)
     /\ IsPermutation(key_probe.a.facility_ids, key_probe.b.facility_ids))
        => key_probe.key_a = key_probe.key_b

\* keys were derived for [1,2,3] and [3,1,2] of tenant 12 on one day
KeyCanonicalizationWitness ==
    /\ key_probe.phase = "derived"
    /\ key_probe.a = Request(12, Some(<<1, 2, 3>>), Morning)
    /\ key_probe.b = Request(12, Some(<<3, 1, 2>>), Late)
    /\ key_probe.key_a = key_probe.key_b
    /\ key_probe.key_a = <<"1", "2", "-", "2", "0", "2", "4", "-", "0", "1", "-",
                           "0", "5", "-", "1", ",", "2", ",", "3">>

\* ------------------------------------------ the miss computation on its own
\* rows the aggregation is applied to: two rows of one group, a second
\* patient, a row late in the day, another tenant, another day
AggRows ==
    {CareNote(1, 1, 10, "p1", "medication", 1, Morning),
     CareNote(2, 1, 10, "p1", "medication", 1, Morning),
     CareNote(3, 1, 11, "p1", "observation", 2, Late),
     CareNote(4, 1, 10, "p2", "medication", 2, Morning),
     CareNote(5, 2, 10, "p1", "medication", 1, Morning),
     CareNote(6, 1, 11, "p2", "treatment", 5, NextDay)}

AggFilters ==
    {Request(t, f, d) : t \in {1, 2}, d \in {Morning, NextDay},
                        f \in {None, Some(<<>>), Some(<<10>>), Some(<<11, 10>>), Some(<<12>>)}}

InitAgg ==
    /\ ServiceInit
    /\ key_probe = NoKeyProbe
    /\ narrow_probe = NoNarrowProbe
    /\ legacy_probe = NoLegacyProbe
    /\ \E table \in SUBSET AggRows, filter \in AggFilters :
          agg_probe = [phase |-> "input", table |-> table, filter |-> filter,
                       result |-> None]

\* what a miss computes from a table that does not change meanwhile:
\* grouped statement, loop, distinct count, result dict
aggregate ==
    /\ agg_probe.phase = "input"
    /\ LET f == agg_probe.filter
       IN agg_probe' = [agg_probe EXCEPT
               !.phase = "aggregated",
               !.result = Some(Recompute(agg_probe.table, f.tenant_id, f.date,
                                         f.facility_ids))]
    /\ UNCHANGED <<service, key_probe, narrow_probe, legacy_probe>>

NextAgg == aggregate

SpecAgg == InitAgg /\ [][NextAgg]_vars

\* the records of the probe's table its filter selects, as the claim words it
ProbeMatching ==
    {n \in agg_probe.table :
        /\ n.tenant_id = agg_probe.filter.tenant_id
        /\ n.created_at.year = agg_probe.filter.date.year
        /\ n.created_at.month = agg_probe.filter.date.month
        /\ n.created_at.day = agg_probe.filter.date.day
        /\ (agg_probe.filter.facility_ids.none
            \/ agg_probe.filter.facility_ids.val = <<>>
            \/ \E i \in DOMAIN agg_probe.filter.facility_ids.val :
                  agg_probe.filter.facility_ids.val[i] = n.facility_id)}

\* C10: a miss returns total_notes = the number of matching records, and
\* by_category[c], by_priority[p], by_facility[f] = the number of matching
\* records with that category, priority, facility (0 where the key is absent).
AggregationCorrect ==
    agg_probe.phase = "aggregated" =>
        LET r == agg_probe.result.val
        IN /\ r.total_notes = Cardinality(ProbeMatching)
           /\ \A c \in CATEGORIES \cup DOMAIN r.by_category :
                 DictGet(r.by_category, c, 0)
                    = Cardinality({n \in ProbeMatching : n.category = c})
           /\ \A p \in PRIORITIES \cup DOMAIN r.by_priority :
                 DictGet(r.by_priority, p, 0)
                    = Cardinality({n \in ProbeMatching : n.priority = p})
           /\ \A f \in {n.facility_id : n \in AggRows} \cup DOMAIN r.by_facility :
                 DictGet(r.by_facility, f, 0)
                    = Cardinality({n \in ProbeMatching : n.facility_id = f})

\* the three records of one patient: two medication/1/facility 10, one
\* observation/2/facility 11, aggregated for their tenant and day
AggregationCorrectWitness ==
    /\ agg_probe.phase = "aggregated"
    /\ agg_probe.filter = Request(1, None, Morning)
    /\ {n.id : n \in agg_probe.table} = {1, 2, 3, 5, 6}
    /\ agg_probe.result.val.total_notes = 3
    /\ agg_probe.result.val.by_category = [c \in {"medication", "observation"} |->
                                             IF c = "medication" THEN 2 ELSE 1]
    /\ agg_probe.result.val.by_priority = <<2, 1, 0, 0, 0>>
    /\ agg_probe.result.val.by_facility = [f \in {10, 11} |-> IF f = 10 THEN 2 ELSE 1]
    /\ agg_probe.result.val.avg_notes_per_patient = 300

\* C11: the result of a miss has by_priority with exactly the keys 1..5, 0 for
\* the priorities no matching record has, while by_category and by_facility
\* have exactly the categories and facilities of the matching records.
PriorityCompleteness ==
    agg_probe.phase = "aggregated" =>
        LET r == agg_probe.result.val
        IN /\ DOMAIN r.by_priority = 1..5
           /\ \A p \in 1..5 :
                 (\A n \in ProbeMatching : n.priority # p) => r.by_priority[p] = 0
           /\ DOMAIN r.by_category = {n.category : n \in ProbeMatching}
           /\ DOMAIN r.by_facility = {n.facility_id : n \in ProbeMatching}

\* two matching records with priorities 1 and 2, no treatment note among
\* them: priorities 3..5 are present with 0, "treatment" is not a key
PriorityCompletenessWitness ==
    /\ agg_probe.phase = "aggregated"
    /\ agg_probe.filter = Request(1, None, Morning)
    /\ {n.id : n \in agg_probe.table} = {1, 3, 5, 6}
    /\ agg_probe.result.val.by_priority = <<1, 1, 0, 0, 0>>
    /\ DOMAIN agg_probe.result.val.by_category = {"medication", "observation"}
    /\ DOMAIN agg_probe.result.val.by_facility = {10, 11}

\* the sum of a dict's values
RECURSIVE SumValues(_)
SumValues(d) ==
    IF DOMAIN d = {} THEN 0
    ELSE LET k == CHOOSE x \in DOMAIN d : TRUE
         IN d[k] + SumValues([x \in DOMAIN d \ {k} |-> d[x]])

\* C21: in the result of a miss total_notes is the sum of the by_category
\* counts, of the by_priority counts and of the by_facility counts, and every
\* count is a natural number.
DimensionTotalsAgree ==
    agg_probe.phase = "aggregated" =>
        LET r == agg_probe.result.val
        IN /\ r.total_notes \in Nat
           /\ r.total_notes = SumValues(r.by_category)
           /\ r.total_notes = SumValues(r.by_priority)
           /\ r.total_notes = SumValues(r.by_facility)
           /\ \A c \in DOMAIN r.by_category : r.by_category[c] \in Nat
           /\ \A p \in DOMAIN r.by_priority : r.by_priority[p] \in Nat
           /\ \A f \in DOMAIN r.by_facility : r.by_facility[f] \in Nat

\* four matching records in three groups, two of which share a category and
\* a facility and two a priority
DimensionTotalsAgreeWitness ==
    /\ agg_probe.phase = "aggregated"
    /\ agg_probe.filter = Request(1, Some(<<11, 10>>), Morning)
    /\ {n.id : n \in agg_probe.table} = {1, 2, 3, 4, 5, 6}
    /\ agg_probe.result.val.total_notes = 4
    /\ SumValues(agg_probe.result.val.by_category) = 4
    /\ agg_probe.result.val.by_category["medication"] = 3
    /\ agg_probe.result.val.by_priority = <<2, 2, 0, 0, 0>>
    /\ agg_probe.result.val.by_facility[10] = 3
    /\ agg_probe.result.val.by_facility[11] = 1

\* ------------------------------------ a filtered and an unfiltered miss
\* the rows of the aggregation probe and one in a third facility
NarrowRows == AggRows \cup {CareNote(7, 1, 12, "p3", "treatment", 3, Morning)}

\* facility_ids lists of the filtered call
NarrowLists == {<<10>>, <<11>>, <<12>>, <<10, 11>>, <<12, 10>>, <<11, 11>>, <<13>>}

InitNarrow ==
    /\ ServiceInit
    /\ key_probe = NoKeyProbe
    /\ agg_probe = NoAggProbe
    /\ legacy_probe = NoLegacyProbe
    /\ \E table \in SUBSET NarrowRows, t \in {1, 2}, d \in {Morning, NextDay},
          subset \in NarrowLists :
          narrow_probe = [phase |-> "input", table |-> table,
                          filter |-> Request(t, None, d), subset |-> subset,
                          unfiltered |-> None, filtered |-> None]

\* two misses on one table: one without facility_ids, one with the list
narrow ==
    /\ narrow_probe.phase = "input"
    /\ LET f == narrow_probe.filter
       IN narrow_probe' = [narrow_probe EXCEPT
               !.phase = "narrowed",
               !.unfiltered = Some(Recompute(narrow_probe.table, f.tenant_id, f.date,
                                             f.facility_ids)),
               !.filtered = Some(Recompute(narrow_probe.table, f.tenant_id, f.date,
                                           Some(narrow_probe.subset)))]
    /\ UNCHANGED <<service, key_probe, agg_probe, legacy_probe>>

NextNarrow == narrow

SpecNarrow == InitNarrow /\ [][NextNarrow]_vars

\* C13: when the ids of the list are a non-empty strict subset of the
\* facilities in the unfiltered by_facility, the filtered by_facility is the
\* unfiltered one restricted to those ids.
FacilityNarrowing ==
    narrow_probe.phase = "narrowed" =>
        LET all == narrow_probe.unfiltered.val.by_facility
            S   == {narrow_probe.subset[i] : i \in DOMAIN narrow_probe.subset}
        IN (S # {} /\ S \subseteq DOMAIN all /\ S # DOMAIN all)
            => narrow_probe.filtered.val.by_facility = [f \in S |-> all[f]]

\* tenant 1's day has notes in facilities 10, 11 and 12; the call for
\* [12, 10] gets the counts of 10 and 12 only
FacilityNarrowingWitness ==
    /\ narrow_probe.phase = "narrowed"
    /\ narrow_probe.table = NarrowRows
    /\ narrow_probe.filter = Request(1, None, Morning)
    /\ narrow_probe.subset = <<12, 10>>
    /\ DOMAIN narrow_probe.unfiltered.val.by_facility = {10, 11, 12}
    /\ narrow_probe.unfiltered.val.by_facility[10] = 3
    /\ narrow_probe.unfiltered.val.by_facility[11] = 1
    /\ narrow_probe.filtered.val.by_facility = [f \in {10, 12} |-> IF f = 10 THEN 3 ELSE 1]
    /\ narrow_probe.filtered.val.total_notes = 4

\* --------------------------------------- the legacy full scan (performance.py)
DatetimeTuple(dt) ==
    <<dt.year, dt.month, dt.day, dt.hour, dt.minute, dt.second, dt.microsecond>>

\* a <= b on tuples of equal length, first difference deciding
RECURSIVE TupleLessEq(_, _)
TupleLessEq(a, b) ==
    IF a = <<>> THEN TRUE
    ELSE IF Head(a) # Head(b) THEN Head(a) < Head(b)
    ELSE TupleLessEq(Tail(a), Tail(b))

\* column BETWEEN low AND high on timestamps
between(x, low, high) ==
    /\ TupleLessEq(DatetimeTuple(low), DatetimeTuple(x))
    /\ TupleLessEq(DatetimeTuple(x), DatetimeTuple(high))

\* select(CareNote) of the tenant from midnight to 23:59:59 of the day
LegacyQuery(table, tenant_id, date) ==
    {n \in table :
        /\ n.tenant_id = tenant_id
        /\ between(n.created_at,
                   datetime(date.year, date.month, date.day, 0, 0, 0, 0),
                   datetime(date.year, date.month, date.day, 23, 59, 59, 0))}

\* stats and patient_ids before the loop
LegacyInitial(notes) ==
    [stats |-> [total_notes |-> Cardinality(notes),
                by_category |-> EmptyDict,
                by_priority |-> [p \in 1..5 |-> 0],
                by_facility |-> EmptyDict,
                avg_notes_per_patient |-> 0],
     patient_ids |-> {}]

\* one iteration of "for note in notes"
LegacyNote(acc, note) ==
    [stats |-> [acc.stats EXCEPT
                  !.by_category = DictPut(@, note.category,
                                          DictGet(@, note.category, 0) + 1),
                  !.by_priority = [@ EXCEPT ![note.priority] = @ + 1],
                  !.by_facility = DictPut(@, note.facility_id,
                                          DictGet(@, note.facility_id, 0) + 1)],
     patient_ids |-> acc.patient_ids \cup {note.patient_id}]

RECURSIVE LegacyLoop(_, _)
LegacyLoop(acc, notes) ==
    IF notes = {} THEN acc
    ELSE LET note == CHOOSE n \in notes : TRUE
         IN LegacyLoop(LegacyNote(acc, note), notes \ {note})

\* the legacy function on a table
get_daily_care_stats(table, tenant_id, date) ==
    LET notes == LegacyQuery(table, tenant_id, date)
        acc   == LegacyLoop(LegacyInitial(notes), notes)
    IN [acc.stats EXCEPT !.avg_notes_per_patient =
            IF acc.patient_ids # {}
            THEN RoundedAvg(Cardinality(notes), Cardinality(acc.patient_ids))
            ELSE 0]

LegacyTenants == {1, 2, 3}
LegacyDates   == {Morning, Late, NextDay}

InitLegacy ==
    /\ ServiceInit
    /\ key_probe = NoKeyProbe
    /\ agg_probe = NoAggProbe
    /\ narrow_probe = NoNarrowProbe
    /\ \E table \in SUBSET AggRows, t \in LegacyTenants, d \in LegacyDates :
          legacy_probe = [phase |-> "input", table |-> table, tenant_id |-> t,
                          date |-> d, legacy |-> None, optimized |-> None]

\* steps 1 and 2 of the performance test on one table: the legacy function,
\* then the optimized one without facility_ids, missing on an empty cache
run_both ==
    /\ legacy_probe.phase = "input"
    /\ cache_store = EmptyDict
    /\ legacy_probe' = [legacy_probe EXCEPT
            !.phase = "compared",
            !.legacy = Some(get_daily_care_stats(legacy_probe.table,
                                                 legacy_probe.tenant_id,
                                                 legacy_probe.date)),
            !.optimized = Some(Recompute(legacy_probe.table, legacy_probe.tenant_id,
                                         legacy_probe.date, None))]
    /\ UNCHANGED <<service, key_probe, agg_probe, narrow_probe>>

NextLegacy == run_both

SpecLegacy == InitLegacy /\ [][NextLegacy]_vars

\* C20: on the same table, tenant and date, the optimized function returns
\* what the legacy one returns, field by field.
LegacyOptimizedEquivalence ==
    legacy_probe.phase = "compared" =>
        \A field \in RollupFields :
            legacy_probe.optimized.val[field] = legacy_probe.legacy.val[field]

====
